---- MODULE Spec2Model ----
(***************************************************************************)
(* A model of oxenc/base32z.h: the alphabet tables, the size arithmetic,   *)
(* the validator is_base32z, the streaming base32z_encoder and             *)
(* base32z_decoder, and the drivers to_base32z and from_base32z.           *)
(*                                                                         *)
(* Characters and bytes are the integers 0..255 (unsigned char).           *)
(* Iterators are 1-based indices into the sequence they range over; the    *)
(* end iterator of a range of k elements starting at index b is b + k.     *)
(***************************************************************************)
EXTENDS Integers, Sequences, FiniteSets, TLC

VARIABLES
    pc,       \* where the driver is: which call is pending or running
    src,      \* the byte sequence handed to to_base32z
    enc,      \* base32z_encoder: [it, bits, r]
    text,     \* what to_base32z has written through `out` so far
    buf,      \* the buffer from_base32z / is_base32z reads its symbols from
    first,    \* from_base32z's `begin`, an index into buf
    last,     \* from_base32z's `end`, an index into buf
    inplace,  \* TRUE when from_base32z's `out` points into buf itself
    out0,     \* the initial value of from_base32z's `out`
    dec,      \* base32z_decoder: [it, in, bits]
    out,      \* from_base32z's output iterator
    wpos,     \* the position of the latest write through `out` (0: none yet)
    dst,      \* the separate output buffer (when not in place)
    verdict,  \* is_base32z results: [random, counted]
    n,        \* the argument of the size functions
    sizes     \* their results: [to, from, round]

vars == <<pc, src, enc, text, buf, first, last, inplace, out0, dec, out, wpos,
          dst, verdict, n, sizes>>

---------------------------------------------------------------------------
(* Bounds of the model. *)

\* longest byte sequence handed to the encoder
MaxBytes == 6
\* longest symbol string handed directly to the decoder
MaxSyms == 8
\* longest string handed to the validator
MaxStr == 10
\* largest distance begin - out of an in-place decode
MaxGap == 1
\* width of size_t in the model: 16 bits, the narrowest the C++ standard
\* permits, so that every value of the type is enumerated; the wrap-around
\* of the size arithmetic is the same at 32 and 64 bits
SizeBits == 16

SizeMod == 2 ^ SizeBits

\* uint_fast16_t has at least 16 bits
Fast16Mod == 2 ^ 16

SeqsUpTo(S, m) == UNION {[1..k -> S] : k \in 0..m}

---------------------------------------------------------------------------
(* detail::b32z_table *)

\* "ybndrfg8ejkmcpqxot1uwisza345h769" as character codes
to_b32z_lut ==
    <<121, 98, 110, 100, 114, 102, 103, 56, 101, 106, 107,
      109, 99, 112, 113, 120, 111, 116, 49, 117, 119, 105,
      115, 122, 97, 51, 52, 53, 104, 55, 54, 57>>

\* the constructor's loop body with the upper-case store left out
lut_entry_lower_only(lut, c) ==
    [lut EXCEPT ![to_b32z_lut[c + 1]] = c]

\* one iteration of the constructor's loop, for value c
lut_entry(lut, c) ==
    LET x  == to_b32z_lut[c + 1]
        l1 == [lut EXCEPT ![x] = c]
    IN  IF x >= 97 /\ x <= 122
        THEN [l1 EXCEPT ![x - 97 + 65] = c]
        ELSE l1

RECURSIVE fill_lut(_, _)
fill_lut(lut, c) ==
    IF c < 32 THEN fill_lut(lut_entry(lut, c), c + 1) ELSE lut

\* from_b32z_lut{} zero-initialised, then filled by the loop
from_b32z_lut == fill_lut([ch \in 0..255 |-> 0], 0)

from_b32z(c) == from_b32z_lut[c]

to_b32z(b) == to_b32z_lut[b + 1]

---------------------------------------------------------------------------
(* Size functions, in size_t arithmetic *)

to_base32z_size(byte_size) ==
    ((((byte_size * 8) % SizeMod) + 4) % SizeMod) \div 5

from_base32z_size(b32z_size) ==
    LET bits == (b32z_size * 5) % SizeMod
    IN  IF bits % 8 < 5 THEN bits \div 8 ELSE 0

---------------------------------------------------------------------------
(* base32z_encoder over the byte sequence s; the end iterator is Len(s)+1 *)

encoder_ctor(s) ==
    LET bits == IF 1 /= Len(s) + 1 THEN 8 ELSE 0
    IN  [it |-> 1, bits |-> bits, r |-> IF bits /= 0 THEN s[1] ELSE 0]

encoder_end(s) == [it |-> Len(s) + 1, bits |-> 0, r |-> 0]

encoder_eq(a, b) == a.it = b.it /\ a.bits = b.bits

\* the low five bits instead of the five most significant ones
encoder_deref_low(e) ==
    to_b32z((e.r % 32) % 256)

\* operator*
encoder_deref(e) ==
    to_b32z((e.r \div (2 ^ (e.bits - 5))) % 256)

\* the final partial group counted as five bits but not shifted up
encoder_pad_noshift(r, bits) ==
    [r |-> r, bits |-> 5]

\* the final partial group shifted up but its count left as it was
encoder_pad_nocount(r, bits) ==
    [r |-> (r * (2 ^ (5 - bits))) % Fast16Mod, bits |-> bits]

\* operator++, no more input bytes and 0 < bits < 5
encoder_pad(r, bits) ==
    [r |-> (r * (2 ^ (5 - bits))) % Fast16Mod, bits |-> 5]

\* operator++
encoder_inc(e, s) ==
    LET end   == Len(s) + 1
        bits1 == e.bits - 5
        r1    == e.r % (2 ^ bits1)
    IN  IF bits1 < 5 /\ e.it /= end
        THEN LET it1 == e.it + 1
             IN  IF it1 /= end
                 THEN [it |-> it1, bits |-> bits1 + 8,
                       r |-> ((r1 * 256) % Fast16Mod) + s[it1]]
                 ELSE IF bits1 > 0
                 THEN [it |-> it1, bits |-> encoder_pad(r1, bits1).bits,
                       r |-> encoder_pad(r1, bits1).r]
                 ELSE [it |-> it1, bits |-> bits1, r |-> r1]
        ELSE [it |-> e.it, bits |-> bits1, r |-> r1]

---------------------------------------------------------------------------
(* is_base32z *)

\* validity inferred from the decoded value alone
char_ok_nonzero(c) ==
    from_b32z(c) /= 0

\* the per-character test of the scan loop (TRUE: keep going)
char_ok(c) ==
    ~(from_b32z(c) = 0 /\ ~(c = 121 \/ c = 89))

\* the scan loop from index i on; the result is [ok, count] where count is
\* the running tally kept when the iterator is not random-access
RECURSIVE scan(_, _, _, _)
scan(s, i, count, random) ==
    IF i = Len(s) + 1 THEN [ok |-> TRUE, count |-> count]
    ELSE IF ~char_ok(s[i]) THEN [ok |-> FALSE, count |-> count]
    ELSE scan(s, i + 1, IF random THEN count ELSE (count + 1) % SizeMod, random)

is_base32z(s, random) ==
    LET count0 == IF random THEN Len(s) % 8 ELSE 0
    IN  IF random /\ count0 \in {1, 3, 6} THEN FALSE
        ELSE LET res == scan(s, 1, count0, random)
             IN  IF ~res.ok THEN FALSE
                 ELSE IF ~random /\ (res.count % 8) \in {1, 3, 6} THEN FALSE
                 ELSE TRUE

---------------------------------------------------------------------------
(* base32z_decoder over b[..]; `end` is the index of the end iterator *)

load_in(d, b) ==
    [it |-> d.it,
     in |-> ((d.in * 32) % Fast16Mod) + (from_b32z(b[d.it]) % 256),
     bits |-> d.bits + 5]

\* a second symbol pulled every time, whether or not a byte is already there
load_byte_always_two(d, b, end) ==
    LET d1 == load_in(d, b)
        d2 == [d1 EXCEPT !.it = d1.it + 1]
    IN  IF d2.it /= end THEN load_in(d2, b) ELSE d2

load_byte(d, b, end) ==
    LET d1 == load_in(d, b)
    IN  IF d1.bits < 8
        THEN LET d2 == [d1 EXCEPT !.it = d1.it + 1]
             IN  IF d2.it /= end THEN load_in(d2, b) ELSE d2
        ELSE d1

decoder_ctor(b, begin, end) ==
    LET d0 == [it |-> begin, in |-> 0, bits |-> 0]
    IN  IF begin /= end THEN load_byte(d0, b, end) ELSE d0

\* operator== compares the positions only
decoder_eq_end(d, end) == d.it = end

\* the low eight bits instead of the eight most significant ones
decoder_deref_low(d) ==
    d.in % 256

\* operator*
decoder_deref(d) ==
    (d.in \div (2 ^ (d.bits - 8))) % 256

\* operator++
decoder_inc(d, b, end) ==
    LET bits1 == d.bits - 8
        d1    == [it |-> d.it + 1, in |-> d.in % (2 ^ bits1), bits |-> bits1]
    IN  IF d1.it /= end THEN load_byte(d1, b, end) ELSE d1

\* from_base32z into a separate buffer, from decoder state d on
RECURSIVE decode_rest(_, _, _, _)
decode_rest(d, b, end, acc) ==
    IF decoder_eq_end(d, end) THEN acc
    ELSE decode_rest(decoder_inc(d, b, end), b, end, Append(acc, decoder_deref(d)))

\* std::string from_base32z(It begin, It end)
from_base32z(s) ==
    decode_rest(decoder_ctor(s, 1, Len(s) + 1), s, Len(s) + 1, <<>>)

---------------------------------------------------------------------------
(* The inputs the model draws from *)

\* 0x00, 0x5A, 0xA5, 0xFF
ByteSample == {0, 90, 165, 255}

\* every byte sequence over the sample, plus every byte value 0..255 alone
\* and in front of / behind a sample byte
ByteInputs ==
    SeqsUpTo(ByteSample, MaxBytes)
        \cup {<<b>> : b \in 0..255}
        \cup {<<b, c>> : b \in 0..255, c \in ByteSample}
        \cup {<<c, b>> : b \in 0..255, c \in ByteSample}

\* the 32 alphabet characters and the upper-case forms of its letters
AlphabetChars == {to_b32z_lut[i] : i \in 1..32}
UpperChars == {c - 32 : c \in {a \in AlphabetChars : a >= 97 /\ a <= 122}}
ValidChars == AlphabetChars \cup UpperChars

\* symbol strings of every length up to MaxSyms (valid lengths and not) over
\* 't', 'T', '9' and over 'y', 'Y', plus every pair of valid characters
SymInputs ==
    SeqsUpTo({116, 84, 57}, MaxSyms)
        \cup SeqsUpTo({121, 89}, MaxSyms)
        \cup {<<a, b>> : a \in ValidChars, b \in ValidChars}

\* strings for the validator: everything over 'y', '0' up to MaxStr, and
\* every character value 0..255 at every position of a run of 'T's
StrInputs ==
    SeqsUpTo({121, 48}, MaxStr)
        \cup UNION {{[i \in 1..k |-> IF i = p THEN c ELSE 84] : p \in 1..k, c \in 0..255}
                    : k \in 1..MaxStr}

NoEnc == [it |-> 1, bits |-> 0, r |-> 0]
NoDec == [it |-> 1, in |-> 0, bits |-> 0]

---------------------------------------------------------------------------
(* to_base32z(begin, end, out): std::copy(it, it.end(), out) *)

Init ==
    /\ pc = "encode"
    /\ src \in ByteInputs
    /\ enc = encoder_ctor(src)
    /\ text = <<>>
    /\ buf = <<>> /\ first = 1 /\ last = 1 /\ inplace = FALSE /\ out0 = 1
    /\ dec = NoDec /\ out = 1 /\ wpos = 0 /\ dst = <<>>
    /\ verdict = <<>> /\ n = 0 /\ sizes = <<>>

\* one iteration of std::copy: *out++ = *it; ++it
EncStep ==
    /\ pc = "encode"
    /\ ~encoder_eq(enc, encoder_end(src))
    /\ text' = Append(text, encoder_deref(enc))
    /\ enc' = encoder_inc(enc, src)
    /\ UNCHANGED <<pc, src, buf, first, last, inplace, out0, dec, out, wpos,
                   dst, verdict, n, sizes>>

\* std::copy returns; the encoded string is handed to from_base32z
EncDone ==
    /\ pc = "encode"
    /\ encoder_eq(enc, encoder_end(src))
    /\ pc' = "call"
    /\ buf' = text /\ first' = 1 /\ last' = Len(text) + 1
    /\ inplace' = FALSE /\ out0' = 1
    /\ UNCHANGED <<src, enc, text, dec, out, wpos, dst, verdict, n, sizes>>

---------------------------------------------------------------------------
(* from_base32z(begin, end, out) *)

\* a symbol string handed straight to from_base32z, decoded into a separate
\* buffer or in place with out = begin - gap
InitDec ==
    /\ pc = "call"
    /\ src = <<>> /\ enc = NoEnc
    /\ text \in SymInputs
    /\ inplace \in BOOLEAN
    /\ \E gap \in 0..MaxGap :
          /\ (~inplace => gap = 0)
          /\ buf = [i \in 1..gap |-> 0] \o text
          /\ first = gap + 1
          /\ last = gap + 1 + Len(text)
    /\ out0 = 1
    /\ dec = NoDec /\ out = 1 /\ wpos = 0 /\ dst = <<>>
    /\ verdict = <<>> /\ n = 0 /\ sizes = <<>>

\* an output iterator that steps over two cells per element written
out_next_wide(o) == o + 2

\* out++
out_next(o) == o + 1

\* assert(is_base32z(begin, end)) (a no-op under NDEBUG), then the decoder
\* and its end() are constructed
FromStart ==
    /\ pc = "call"
    /\ \E ndebug \in BOOLEAN, random \in BOOLEAN :
          IF ~ndebug /\ ~is_base32z(SubSeq(buf, first, last - 1), random)
          THEN /\ pc' = "aborted"
               /\ UNCHANGED <<dec, out>>
          ELSE /\ pc' = "decode"
               /\ dec' = decoder_ctor(buf, first, last)
               /\ out' = out0
    /\ UNCHANGED <<src, enc, text, buf, first, last, inplace, out0, wpos, dst,
                   verdict, n, sizes>>

\* one iteration of the loop: *out++ = byte(*it++).  it++ copies the
\* decoder, advances the original (reading further symbols) and yields the
\* copy, whose current byte is then stored through out.
FromStep ==
    /\ pc = "decode"
    /\ ~decoder_eq_end(dec, last)
    /\ dec' = decoder_inc(dec, buf, last)
    /\ IF inplace
       THEN buf' = [buf EXCEPT ![out] = decoder_deref(dec)] /\ dst' = dst
       ELSE dst' = Append(dst, decoder_deref(dec)) /\ buf' = buf
    /\ wpos' = out
    /\ out' = out_next(out)
    /\ UNCHANGED <<pc, src, enc, text, first, last, inplace, out0, verdict, n,
                   sizes>>

\* it == bend: return out
FromDone ==
    /\ pc = "decode"
    /\ decoder_eq_end(dec, last)
    /\ pc' = "done"
    /\ UNCHANGED <<src, enc, text, buf, first, last, inplace, out0, dec, out,
                   wpos, dst, verdict, n, sizes>>

\* the bytes between the initial `out` and the latest write
Result ==
    IF inplace
    THEN [i \in 1..(IF wpos = 0 THEN 0 ELSE wpos - out0 + 1) |-> buf[out0 + i - 1]]
    ELSE dst

---------------------------------------------------------------------------
(* is_base32z over a random-access range and over a forward-only range *)

InitValid ==
    /\ pc = "check"
    /\ buf \in StrInputs
    /\ src = <<>> /\ enc = NoEnc /\ text = <<>>
    /\ first = 1 /\ last = Len(buf) + 1 /\ inplace = FALSE /\ out0 = 1
    /\ dec = NoDec /\ out = 1 /\ wpos = 0 /\ dst = <<>>
    /\ verdict = <<>> /\ n = 0 /\ sizes = <<>>

ValidateRandom ==
    /\ pc = "check"
    /\ "random" \notin DOMAIN verdict
    /\ verdict' = verdict @@ ("random" :> is_base32z(buf, TRUE))
    /\ UNCHANGED <<pc, src, enc, text, buf, first, last, inplace, out0, dec,
                   out, wpos, dst, n, sizes>>

ValidateCounted ==
    /\ pc = "check"
    /\ "counted" \notin DOMAIN verdict
    /\ verdict' = verdict @@ ("counted" :> is_base32z(buf, FALSE))
    /\ UNCHANGED <<pc, src, enc, text, buf, first, last, inplace, out0, dec,
                   out, wpos, dst, n, sizes>>

---------------------------------------------------------------------------
(* the size functions over every value of size_t *)

InitSize ==
    /\ pc = "size"
    /\ n \in 0..(SizeMod - 1)
    /\ src = <<>> /\ enc = NoEnc /\ text = <<>>
    /\ buf = <<>> /\ first = 1 /\ last = 1 /\ inplace = FALSE /\ out0 = 1
    /\ dec = NoDec /\ out = 1 /\ wpos = 0 /\ dst = <<>>
    /\ verdict = <<>> /\ sizes = <<>>

\* from_base32z_size(n)
CallFromSize ==
    /\ pc = "size"
    /\ pc' = "sized_from"
    /\ sizes' = ("from" :> from_base32z_size(n))
    /\ UNCHANGED <<src, enc, text, buf, first, last, inplace, out0, dec, out,
                   wpos, dst, verdict, n>>

\* to_base32z_size(n)
CallToSize ==
    /\ pc = "size"
    /\ pc' = "sized_to"
    /\ sizes' = ("to" :> to_base32z_size(n))
    /\ UNCHANGED <<src, enc, text, buf, first, last, inplace, out0, dec, out,
                   wpos, dst, verdict, n>>

\* from_base32z_size(to_base32z_size(n))
CallFromSizeOfTo ==
    /\ pc = "sized_to"
    /\ pc' = "sized_round"
    /\ sizes' = sizes @@ ("round" :> from_base32z_size(sizes["to"]))
    /\ UNCHANGED <<src, enc, text, buf, first, last, inplace, out0, dec, out,
                   wpos, dst, verdict, n>>

---------------------------------------------------------------------------
(* Specifications *)

Next == EncStep \/ EncDone \/ FromStart \/ FromStep \/ FromDone

\* encode a byte sequence, then decode what was produced
Spec == Init /\ [][Next]_vars

NextDec == FromStart \/ FromStep \/ FromDone

\* decode a given symbol string
SpecDec == InitDec /\ [][NextDec]_vars

NextValid == ValidateRandom \/ ValidateCounted

SpecValid == InitValid /\ [][NextValid]_vars

NextSize == CallFromSize \/ CallToSize \/ CallFromSizeOfTo

SpecSize == InitSize /\ [][NextSize]_vars

---------------------------------------------------------------------------
(* Properties *)

\* the encoder has run to its end and from_base32z has been called
Encoded == pc \in {"call", "decode", "done", "aborted"}

\* the length of the symbol string handed to from_base32z
NumSyms == last - first

ValidLength(k) == (k % 8) \notin {1, 3, 6}

\* C1: round trip: decoding what to_base32z produced from the byte sequence
\* src gives src back.
RoundTrip ==
    pc = "done" => Result = src

RoundTripWitness ==
    /\ pc = "done"
    /\ Len(src) = 5 /\ src[1] = 255 /\ src[5] = 165
    /\ Result = src

\* the alphabet as the specification lists it, for the values 0..31:
\* y b n d r f g 8 e j k m c p q x o t 1 u w i s z a 3 4 5 h 7 6 9
SpecAlphabet ==
    <<121, 98, 110, 100, 114, 102, 103, 56, 101, 106, 107, 109, 99, 112, 113,
      120, 111, 116, 49, 117, 119, 105, 115, 122, 97, 51, 52, 53, 104, 55,
      54, 57>>

\* bit j (0-based, most significant bit of the first byte first) of the byte
\* sequence s, and 0 past its end
BitAt(s, j) ==
    IF j < 8 * Len(s) THEN (s[(j \div 8) + 1] \div (2 ^ (7 - (j % 8)))) % 2 ELSE 0

\* the value of the i-th (1-based) 5-bit group of s, zero-padded on the right
GroupAt(s, i) ==
    16 * BitAt(s, 5 * (i - 1)) + 8 * BitAt(s, 5 * (i - 1) + 1)
        + 4 * BitAt(s, 5 * (i - 1) + 2) + 2 * BitAt(s, 5 * (i - 1) + 3)
        + BitAt(s, 5 * (i - 1) + 4)

\* C2: driven to end(), the encoder emits exactly to_base32z_size(n) =
\* ceil(8n/5) symbols, the i-th being the alphabet character of the i-th
\* 5-bit group of the input bits (the last group zero-padded on the right).
EncoderOutput ==
    Encoded =>
        /\ Len(text) = to_base32z_size(Len(src))
        /\ Len(text) = (8 * Len(src) + 4) \div 5
        /\ \A i \in 1..Len(text) : text[i] = SpecAlphabet[GroupAt(src, i) + 1]
        /\ (src = <<>> => text = <<>>)
        /\ (src = <<255, 255>> => text = <<57, 57, 57, 111>>)
        /\ (src = <<0>> => text = <<121, 121>>)

EncoderOutputWitness ==
    /\ pc = "call"
    /\ src = <<255, 255>>
    /\ text = <<57, 57, 57, 111>>

\* what C3 says is_base32z returns for the string s
SpecValidString(s) ==
    /\ \A i \in 1..Len(s) : s[i] \in ValidChars
    /\ (Len(s) % 8) \notin {1, 3, 6}

\* C3: is_base32z is true exactly when every character is an alphabet symbol
\* or the upper-case form of an alphabet letter and the length mod 8 is not
\* 1, 3 or 6, whichever way the length is obtained.
ValidatorVerdict ==
    \A k \in DOMAIN verdict : verdict[k] = SpecValidString(buf)

ValidatorVerdictWitness ==
    /\ DOMAIN verdict = {"random", "counted"}
    /\ Len(buf) = 8 /\ buf[3] = 89 /\ buf[1] = 84
    /\ verdict["random"] /\ verdict["counted"]

\* C4: from_base32z_size(k) is 0 when k mod 8 is 1, 3 or 6 and floor(5k/8)
\* for every other k.
FromSizeValue ==
    pc = "sized_from" =>
        sizes["from"] = IF (n % 8) \in {1, 3, 6} THEN 0 ELSE (5 * n) \div 8

\* C5: from_base32z_size(to_base32z_size(n)) = n for every n of the size
\* type.
SizeRoundTrip ==
    pc = "sized_round" => sizes["round"] = n

\* the number of padding bits in the last symbol of a k-symbol string
PadBits(k) == (5 * k) % 8

\* s with its last symbol replaced by the alphabet character of value v
WithLast(s, v) == [s EXCEPT ![Len(s)] = to_b32z(v)]

\* C6: two symbol strings of the same valid length that differ only in the
\* padding bits of the last symbol decode to the same bytes.
PaddingIgnored ==
    (pc = "done" /\ NumSyms > 0 /\ ValidLength(NumSyms)) =>
        \A v \in 0..31 :
            (v \div (2 ^ PadBits(NumSyms))
                 = from_b32z(text[Len(text)]) \div (2 ^ PadBits(NumSyms)))
              => from_base32z(WithLast(text, v)) = Result

PaddingIgnoredWitness ==
    /\ pc = "done"
    /\ text = <<57, 57, 57, 57>>
    /\ Result = <<255, 255>>
    /\ from_base32z(<<57, 57, 57, 111>>) = <<255, 255>>
    /\ from_base32z(<<57, 57, 57, 51>>) = <<255, 255>>
    /\ from_base32z(<<57, 57, 57, 122>>) = <<255, 255>>

\* s with every upper-case letter replaced by its lower-case form
Lower(s) == [i \in 1..Len(s) |-> IF s[i] >= 65 /\ s[i] <= 90 THEN s[i] + 32 ELSE s[i]]

\* C7: a string obtained from a valid lower-case string by upper-casing some
\* of its letters is still accepted by is_base32z and decodes to the same
\* bytes.
CaseInsensitive ==
    \A random \in BOOLEAN :
        is_base32z(Lower(text), random) =>
            /\ is_base32z(text, random)
            /\ (pc = "done" => Result = from_base32z(Lower(text)))

CaseInsensitiveWitness ==
    /\ pc = "done"
    /\ text = <<84, 116, 84, 57, 116>>
    /\ is_base32z(text, TRUE)
    /\ Result = from_base32z(<<116, 116, 116, 57, 116>>)
    /\ Len(Result) = 3

\* the number of bytes from_base32z has stored so far
Written == out - out0

\* C8: over a symbol string of valid length k the decoder reaches end()
\* exactly when floor(5k/8) = from_base32z_size(k) bytes have been emitted,
\* and then holds between 0 and 4 unconsumed bits.
DecoderTerminates ==
    (pc \in {"decode", "done"} /\ ValidLength(NumSyms)) =>
        /\ (decoder_eq_end(dec, last) <=> Written = (5 * NumSyms) \div 8)
        /\ Written <= (5 * NumSyms) \div 8
        /\ (decoder_eq_end(dec, last) =>
               /\ Written = from_base32z_size(NumSyms)
               /\ Len(Result) = Written
               /\ dec.bits >= 0 /\ dec.bits <= 4)

DecoderTerminatesWitness ==
    /\ pc = "done"
    /\ NumSyms = 7
    /\ Len(Result) = 4
    /\ dec.bits = 3

\* C9: decoding in place with out no later than begin, every write lands
\* strictly before every symbol the decoder has not read yet, and the bytes
\* produced are those of decoding the same symbols into a separate buffer.
InPlaceSafe ==
    inplace =>
        /\ (wpos /= 0 => \A p \in (dec.it + 1)..(last - 1) : wpos < p)
        /\ (pc = "done" => Result = from_base32z(text))

InPlaceSafeWitness ==
    /\ pc = "decode"
    /\ inplace /\ first = out0
    /\ wpos = 2
    /\ dec.it + 1 < last
    /\ buf[dec.it + 1] = text[dec.it + 1]

\* C10: while not at end(), the encoder holds 5..15 significant bits and the
\* decoder 8..12; neither count ever exceeds 15.
BitCounts ==
    /\ (pc = "encode" /\ ~encoder_eq(enc, encoder_end(src)))
           => (enc.bits >= 5 /\ enc.bits <= 15)
    /\ (pc = "decode" /\ ~decoder_eq_end(dec, last))
           => (dec.bits >= 8 /\ dec.bits <= 12)
    /\ enc.bits <= 15 /\ enc.bits >= 0
    /\ dec.bits <= 15 /\ dec.bits >= 0

BitCountsWitness ==
    /\ pc = "decode"
    /\ ~decoder_eq_end(dec, last)
    /\ dec.bits = 12
    /\ Len(text) = 8

====
